---- MODULE Spec2Model ----
(***************************************************************************)
(* icecloud: a command line tool that runs, sets up and shuts down a fleet *)
(* of Icecast servers on EC2 (src/icecloud.go, src/template.go).           *)
(*                                                                         *)
(* One process invocation is modelled: main parses its arguments, reads    *)
(* the config or state file, runs one verb (run, setup, playlist,          *)
(* shutdown) and writes the state file.  The provider (EC2), ssh, the file *)
(* system and the clock are the environment: every answer they can give is *)
(* a nondeterministic choice of the action that makes the call.  A session *)
(* (SpecSession) is a sequence of such invocations over the files each     *)
(* one leaves to the next.                                                 *)
(***************************************************************************)
EXTENDS Integers, Sequences, FiniteSets, TLC

(***************************************************************************)
(* Bounds of the model.                                                    *)
(***************************************************************************)
\* largest fleet (len(c.Server)) of the files main reads
MaxNodes == 2
\* most mounts named on the command line of playlist
MaxMounts == 2
\* longest time, in seconds, a describe-instances call takes (SpecWait)
MaxPollLatency == 3
\* largest fleet of the playlist specification
MaxPlaylistNodes == 4
\* largest fleet of the specification with fairness (SpecLive)
MaxFanOut == 2
\* largest fleet of the setup specification
MaxSetupNodes == 3
\* largest fleet, and most invocations, of the specification of a session
MaxSessionNodes == 2
MaxInvocations == 3

(***************************************************************************)
(* Program constants.                                                      *)
(***************************************************************************)
\* waitReady: deadline := time.Now().Add(2 * time.Minute), in seconds
DeadlineSecs == 120
\* waitReady: time.Sleep(5e9), in seconds
SleepSecs == 5

(***************************************************************************)
(* Data.                                                                   *)
(***************************************************************************)
\* Server.Instance == nil; a non-nil pointer is a one-element sequence
NoInstance == <<>>

\* ioutil.ReadFile fails (or json.Unmarshal does): no usable file
NoFile == [present |-> FALSE, Server |-> <<>>, Icecast |-> FALSE]

\* the nil error
nil == "nil"

Instance(id, dns) == <<[InstanceId |-> id, DNSName |-> dns]>>

\* the identifier the provider gave node i's instance before this invocation
OldId(i) == "i-old" \o ToString(i)

\* the public DNS name the provider assigns to node i's instance
Host(i) == "host" \o ToString(i)

NodeName(i) == "n" \o ToString(i)

Kinds == {"master", "slave"}

Verbs == {"", "run", "setup", "playlist", "shutdown", "bogus"}

MountNames == <<"live", "alt", "hq", "lo">>

\* the positional arguments after the verb: mounts for playlist, and for the
\* other verbs nothing or a config file name
ArgLists(v) ==
    IF v = "playlist"
    THEN {SubSeq(MountNames, 1, n) : n \in 0..MaxMounts}
    ELSE {<<>>, <<"config.json">>}

\* the values Server[i].Instance has in a file: nil, an instance without an
\* address yet, an instance with its address
FileInstances(i) == {NoInstance, Instance(OldId(i), ""), Instance(OldId(i), Host(i))}

ServersOf(n) ==
    { [i \in 1..n |-> [Name |-> NodeName(i), Kind |-> k[i], Instance |-> inst[i]]] :
        k \in [1..n -> Kinds],
        inst \in { f \in [1..n -> UNION {FileInstances(i) : i \in 1..n}] :
                     \A i \in 1..n : f[i] \in FileInstances(i) } }

\* the contents a config or state file can have
FileContents(max) ==
    {NoFile} \cup
    { [present |-> TRUE, Server |-> s, Icecast |-> ice] :
        s \in UNION {ServersOf(n) : n \in 0..max}, ice \in BOOLEAN }

VARIABLES
    verb,        \* flag.Arg(0)
    args,        \* flag.Args()[1:]
    configDisk,  \* the content of the config file named on the command line
    stateDisk,   \* the content of the state file (*stateFile)
    Server,      \* config.Server, in memory
    Icecast,     \* config.Icecast != nil
    pc,          \* where main is
    exitCode,    \* -1 while the process runs, then its exit status
    usage,       \* flag.Usage() has printed the usage text
    err,         \* main's err after the verb
    loaded,      \* ReadConfig has returned a Config
    idx,         \* the index of the range loop of Run or Shutdown
    ok,          \* Shutdown's ok
    allOk,       \* Setup's allOk
    recvd,       \* receives done by the receive loop of Run or Setup
    wpc,         \* where each node's goroutine is
    wres,        \* what waitReady / setupInstance returned for each node
    wake,        \* when each goroutine's sleep or provider call ends
    deadline,    \* waitReady's deadline of each node
    begun,       \* when each goroutine's getInstance call started
    polls,       \* the getInstance calls each goroutine's waitReady has made
    now,         \* the clock, in seconds since the process started
    maxLat,      \* the longest time a describe-instances call takes
    createReqs,  \* the nodes RunInstances was requested for, in order
    createFail,  \* the node whose creation failed (0: none)
    termReqs,    \* the nodes TerminateInstances was requested for, in order
    termFail,    \* the nodes whose termination request failed
    sshCmds,     \* per node: the remote commands issued, in order, and how each ended
    files,       \* the playlist files written: name -> content
    written,     \* config.Write(*stateFile): "no" (not called), "failed" or "yes"
    inv,         \* the number of this invocation of icecloud, from 1
    live,        \* the instances that existed when this invocation started
    gone         \* the instances terminated, with success, by earlier invocations
                 \* that went on to write the state file

\* what an invocation is given and does not change
cliVars == <<verb, args, configDisk, maxLat, inv, live, gone>>
memVars == <<Server, Icecast>>
mainVars == <<pc, exitCode, usage, err, loaded>>
loopVars == <<idx, ok, allOk, recvd>>
workVars == <<wpc, wres, wake, deadline, begun, polls>>
provVars == <<createReqs, createFail, termReqs, termFail>>
outVars == <<stateDisk, files, written>>

vars == <<cliVars, memVars, mainVars, loopVars, workVars, now, provVars, sshCmds, outVars>>

\* the identifier the provider gives the instance it creates for node i now:
\* one it has not given before
NewId(i) == "i-new" \o ToString(i) \o "-" \o ToString(inv)

N == Len(Server)

Nodes == 1..N

EmptyFiles == [x \in {} |-> <<>>]

\* everything but the command line and the files on disk
Fresh ==
    /\ Server = <<>>
    /\ Icecast = FALSE
    /\ pc = "start"
    /\ exitCode = -1
    /\ usage = FALSE
    /\ err = nil
    /\ loaded = FALSE
    /\ idx = 0
    /\ ok = TRUE
    /\ allOk = TRUE
    /\ recvd = 0
    /\ wpc = <<>>
    /\ wres = <<>>
    /\ wake = <<>>
    /\ deadline = <<>>
    /\ begun = <<>>
    /\ polls = <<>>
    /\ now = 0
    /\ createReqs = <<>>
    /\ createFail = 0
    /\ termReqs = <<>>
    /\ termFail = {}
    /\ sshCmds = <<>>
    /\ files = EmptyFiles
    /\ written = "no"

\* the identifiers of the instances a file names
IdsOf(content) ==
    { content.Server[i].Instance[1].InstanceId :
        i \in {j \in 1..Len(content.Server) : content.Server[j].Instance # NoInstance} }

\* the first invocation: the instances the files name exist
FirstInvocation ==
    /\ inv = 1
    /\ live = IdsOf(configDisk) \cup IdsOf(stateDisk)
    /\ gone = {}

\* the config files given to run: Run reads neither Kind nor Icecast, and one
\* choice of them is enough (a master first, Icecast set)
RunConfig(content) ==
    \/ ~content.present
    \/ /\ content.Icecast
       /\ \A i \in 1..Len(content.Server) :
             content.Server[i].Kind = IF i = 1 THEN "master" ELSE "slave"

\* a process started with any verb and arguments, over any files
Init ==
    /\ verb \in Verbs
    /\ args \in ArgLists(verb)
    /\ \E content \in FileContents(MaxNodes) :
          /\ verb = "run" => RunConfig(content)
          /\ configDisk = IF verb = "run" THEN content ELSE NoFile
          /\ stateDisk = IF verb = "run" THEN NoFile ELSE content
    /\ maxLat = 0
    /\ FirstInvocation
    /\ Fresh

(***************************************************************************)
(* main                                                                    *)
(***************************************************************************)
\* log.Fatal, and flag.Usage's os.Exit(1)
Exit(code) ==
    /\ pc' = "exit"
    /\ exitCode' = code

\* main up to ReadConfig: the verb and the config file argument
main_args ==
    /\ pc = "start"
    /\ \/ /\ verb = ""
          /\ usage' = TRUE
          /\ Exit(1)
       \/ /\ verb = "run"
          /\ args = <<>>
          /\ usage' = TRUE
          /\ Exit(1)
       \/ /\ verb # ""
          /\ verb = "run" => args # <<>>
          /\ pc' = "read"
          /\ UNCHANGED <<usage, exitCode>>
    /\ UNCHANGED <<cliVars, memVars, err, loaded, loopVars, workVars, now, provVars, sshCmds,
                   outVars>>

\* the file ReadConfig is given: the config file for run, else the state file
ConfigFile == IF verb = "run" THEN configDisk ELSE stateDisk

\* json.Unmarshal of a file's content into a Config
Unmarshal(b) == [Server |-> b.Server, Icecast |-> b.Icecast]

\* a Write that leaves the instances out
MarshalWithoutInstances(s, ice) ==
    [present |-> TRUE,
     Server |-> [i \in DOMAIN s |-> [s[i] EXCEPT !.Instance = NoInstance]],
     Icecast |-> ice]

\* json.MarshalIndent of the Config: its exported fields
Marshal(s, ice) == [present |-> TRUE, Server |-> s, Icecast |-> ice]

ReadConfig ==
    /\ pc = "read"
    /\ \/ /\ ~ConfigFile.present
          /\ Exit(1)
          /\ UNCHANGED <<memVars, loaded>>
       \/ /\ ConfigFile.present
          /\ \E authOk \in BOOLEAN :
                IF authOk
                THEN /\ Server' = Unmarshal(ConfigFile).Server
                     /\ Icecast' = Unmarshal(ConfigFile).Icecast
                     /\ loaded' = TRUE
                     /\ pc' = "dispatch"
                     /\ UNCHANGED exitCode
                ELSE /\ Exit(1)
                     /\ UNCHANGED <<memVars, loaded>>
    /\ wpc' = [i \in 1..Len(Server') |-> "idle"]
    /\ wres' = [i \in 1..Len(Server') |-> "none"]
    /\ wake' = [i \in 1..Len(Server') |-> 0]
    /\ deadline' = [i \in 1..Len(Server') |-> 0]
    /\ begun' = [i \in 1..Len(Server') |-> 0]
    /\ polls' = [i \in 1..Len(Server') |-> 0]
    /\ sshCmds' = [i \in 1..Len(Server') |-> <<>>]
    /\ UNCHANGED <<cliVars, usage, err, loopVars, now, provVars, outVars>>

\* the switch on the verb
main_switch ==
    /\ pc = "dispatch"
    /\ \/ /\ verb = "run"
          /\ pc' = "run"
          /\ idx' = 1
          /\ UNCHANGED <<err, ok, allOk, recvd, workVars>>
       \/ /\ verb = "setup"
          /\ pc' = "setup"
          /\ allOk' = TRUE
          /\ recvd' = 0
          /\ wpc' = [i \in Nodes |-> "setup"]
          /\ UNCHANGED <<err, idx, ok, wres, wake, deadline, begun, polls>>
       \/ /\ verb = "playlist"
          /\ pc' = "playlist"
          /\ UNCHANGED <<err, loopVars, workVars>>
       \/ /\ verb = "shutdown"
          /\ pc' = "shutdown"
          /\ idx' = 1
          /\ ok' = TRUE
          /\ UNCHANGED <<err, allOk, recvd, workVars>>
       \/ /\ verb \notin {"run", "setup", "playlist", "shutdown"}
          /\ err' = "invalid verb"
          /\ pc' = "finish"
          /\ UNCHANGED <<loopVars, workVars>>
    /\ UNCHANGED <<cliVars, memVars, exitCode, usage, loaded, now, provVars, sshCmds, outVars>>

\* main after the switch: log.Fatal(err), or config.Write(*stateFile)
main_finish ==
    /\ pc = "finish"
    /\ \/ /\ err # nil
          /\ Exit(1)
          /\ UNCHANGED <<stateDisk, written>>
       \/ /\ err = nil
          /\ \E writeOk \in BOOLEAN :
                IF writeOk
                THEN /\ stateDisk' = Marshal(Server, Icecast)
                     /\ written' = "yes"
                     /\ Exit(0)
                ELSE /\ written' = "failed"
                     /\ Exit(1)
                     /\ UNCHANGED stateDisk
    /\ UNCHANGED <<cliVars, memVars, usage, err, loaded, loopVars, workVars, now, provVars,
                   sshCmds, files>>

(***************************************************************************)
(* Config.Run, Config.runInstance                                          *)
(***************************************************************************)
\* what e.RunInstances can answer: one instance, an error, or a response
\* whose instance count is not 1
RunOutcomes == {"ok", "error", "count"}

\* runInstance returns an error: err != nil, or len(resp.Instances) != 1
runInstanceFails(outcome) == outcome # "ok"

\* a Run that goes on with the next server after a failed runInstance
RunNextKeepsGoing(failed, i) == [pc |-> "run", idx |-> i + 1]

\* where Run goes after runInstance(c.Server[i]): on an error it returns
\* c.Shutdown(), else the range loop goes on
RunNext(failed, i) ==
    IF failed
    THEN [pc |-> "shutdown", idx |-> 1]
    ELSE [pc |-> "run", idx |-> i + 1]

\* one iteration of Run's first loop: runInstance(c.Server[idx])
runInstance ==
    /\ pc = "run"
    /\ idx <= N
    /\ \E outcome \in RunOutcomes :
          /\ createReqs' = Append(createReqs, idx)
          /\ createFail' = IF runInstanceFails(outcome) THEN idx ELSE createFail
          /\ Server' = IF runInstanceFails(outcome)
                       THEN Server
                       ELSE [Server EXCEPT ![idx].Instance = Instance(NewId(idx), "")]
          /\ pc' = RunNext(runInstanceFails(outcome), idx).pc
          /\ idx' = RunNext(runInstanceFails(outcome), idx).idx
    /\ ok' = TRUE
    /\ UNCHANGED <<cliVars, Icecast, exitCode, usage, err, loaded, allOk, recvd, workVars, now,
                   termReqs, termFail, sshCmds, outVars>>

\* a waitReady whose deadline is out of reach: a count of nanoseconds added
\* to a time in seconds
waitReadyDeadlineFarOff(t) == t + DeadlineSecs * 1000000

\* waitReady's deadline := time.Now().Add(2 * time.Minute)
waitReadyDeadline(t) == t + DeadlineSecs

\* Run's second loop: one goroutine per server, each starting waitReady
Run_spawn ==
    /\ pc = "run"
    /\ idx > N
    /\ pc' = "wait"
    /\ recvd' = 0
    /\ wpc' = [i \in Nodes |-> "loop"]
    /\ deadline' = [i \in Nodes |-> waitReadyDeadline(now)]
    /\ wake' = [i \in Nodes |-> now]
    /\ UNCHANGED <<cliVars, memVars, exitCode, usage, err, loaded, idx, ok, allOk, wres, begun,
                   polls, now,
                   provVars, sshCmds, outVars>>

(***************************************************************************)
(* Config.waitReady, Config.getInstance                                    *)
(***************************************************************************)
\* a waitReady that still polls at the deadline itself
waitReadyGoesOnAtDeadline(t, d) == t <= d

\* the loop condition of waitReady: time.Now().Before(deadline)
waitReadyGoesOn(t, d) == t < d

\* waitReady's loop test; when it holds, the call of getInstance starts
waitReady_test(i) ==
    /\ pc = "wait"
    /\ wpc[i] = "loop"
    /\ now >= wake[i]
    /\ IF waitReadyGoesOn(now, deadline[i])
       THEN \E lat \in 0..maxLat :
               /\ wpc' = [wpc EXCEPT ![i] = "poll"]
               /\ wake' = [wake EXCEPT ![i] = now + lat]
               /\ begun' = [begun EXCEPT ![i] = now]
               /\ polls' = [polls EXCEPT ![i] = @ + 1]
               /\ UNCHANGED wres
       ELSE /\ wpc' = [wpc EXCEPT ![i] = "send"]
            /\ wres' = [wres EXCEPT ![i] = "waitReady: server took too long"]
            /\ wake' = [wake EXCEPT ![i] = 0]
            /\ UNCHANGED <<begun, polls>>
    /\ UNCHANGED <<cliVars, memVars, mainVars, loopVars, deadline, now, provVars,
                   sshCmds, outVars>>

\* the answers of e.Instances for which getInstance returns an error: an
\* error of the call, a response without exactly one reservation, a
\* reservation without exactly one instance
PollErrors == {"error", "reservations", "instances"}

\* what e.Instances can answer: one of those, or the instance, with or
\* without an address
PollOutcomes(i) == PollErrors \cup {"", Host(i)}

\* a waitReady that polls again after an error of getInstance
waitReadyOnErrorRetries == "loop"

\* where waitReady goes when getInstance returns an error: return err
waitReadyOnError == "send"

\* goroutines that all work on the range loop's last server (a closure over
\* the loop variable)
goArgCaptured(i, n) == n

\* the server that the goroutine started in iteration i of a range loop over
\* n servers works on: go func(s *Server) {...}(s) passes it as an argument
goArg(i, n) == i

\* getInstance returns, and waitReady goes on from it
getInstance(i) ==
    /\ pc = "wait"
    /\ wpc[i] = "poll"
    /\ now >= wake[i]
    /\ \E outcome \in PollOutcomes(i) :
          IF outcome \in PollErrors
          THEN /\ wpc' = [wpc EXCEPT ![i] = waitReadyOnError]
               /\ wres' = [wres EXCEPT ![i] = "getInstance"]
               /\ wake' = [wake EXCEPT ![i] = 0]
               /\ UNCHANGED Server
          ELSE /\ Server' = [Server EXCEPT ![goArg(i, N)].Instance =
                                Instance(Server[goArg(i, N)].Instance[1].InstanceId, outcome)]
               /\ IF outcome # ""
                  THEN /\ wpc' = [wpc EXCEPT ![i] = "send"]
                       /\ wres' = [wres EXCEPT ![i] = nil]
                       /\ wake' = [wake EXCEPT ![i] = 0]
                  ELSE /\ wpc' = [wpc EXCEPT ![i] = "loop"]
                       /\ wake' = [wake EXCEPT ![i] = now + SleepSecs]
                       /\ UNCHANGED wres
    /\ UNCHANGED <<cliVars, Icecast, mainVars, loopVars, deadline, begun, polls, now, provVars,
                   sshCmds, outVars>>

\* the goroutines that sleep or wait for the provider's answer
Waiting == {i \in Nodes : wpc[i] \in {"loop", "poll"}}

Min(S) == CHOOSE x \in S : \A y \in S : x <= y

\* time passes, to the next moment a sleep or a provider call ends, when no
\* goroutine can take a step now
Tick ==
    /\ pc = "wait"
    /\ Waiting # {}
    /\ \A i \in Nodes : wpc[i] # "send"
    /\ \A i \in Waiting : wake[i] > now
    /\ now' = Min({wake[i] : i \in Waiting})
    /\ UNCHANGED <<cliVars, memVars, mainVars, loopVars, workVars, provVars, sshCmds,
                   outVars>>

\* done <- s in node i's goroutine meets <-done in Run's last loop
Run_recv(i) ==
    /\ pc = "wait"
    /\ recvd < N
    /\ wpc[i] = "send"
    /\ wpc' = [wpc EXCEPT ![i] = "exited"]
    /\ begun' = [begun EXCEPT ![i] = 0]
    /\ polls' = [polls EXCEPT ![i] = 0]
    /\ recvd' = recvd + 1
    /\ UNCHANGED <<cliVars, memVars, mainVars, idx, ok, allOk, wres, wake, deadline, now,
                   provVars, sshCmds, outVars>>

\* a receive loop that ends one receive early
ReceiveLoopDoneEarly(n, len) == n >= len - 1

\* the receive loops of Run and Setup, for _ = range c.Server, are over after
\* len(c.Server) receives
ReceiveLoopDone(n, len) == n = len

\* a Run that returns an error when a waitReady did
RunResultOfWaits(results) ==
    IF \A i \in DOMAIN results : results[i] = nil THEN nil ELSE "some instances not ready"

\* what Run returns after its last loop, whatever waitReady returned
RunResult(results) == nil

\* Run's last loop has received len(c.Server) times
Run_return ==
    /\ pc = "wait"
    /\ ReceiveLoopDone(recvd, N)
    /\ err' = RunResult(wres)
    /\ pc' = "finish"
    /\ UNCHANGED <<cliVars, memVars, exitCode, usage, loaded, loopVars, workVars, now, provVars,
                   sshCmds, outVars>>

(***************************************************************************)
(* Config.Shutdown                                                         *)
(***************************************************************************)
\* the servers Shutdown passes over: s.Instance == nil
ShutdownSkips(s) == s.Instance = NoInstance

\* what Shutdown returns
ShutdownResult(allTerminated) ==
    IF allTerminated THEN nil ELSE "some instances didn't shut down cleanly"

\* a Shutdown that returns at the first termination request that fails
ShutdownNextStops(terminated, i) == IF terminated THEN i + 1 ELSE N + 1

\* where Shutdown's loop goes after a termination request
ShutdownNext(terminated, i) == i + 1

\* one iteration of Shutdown's loop
Shutdown_step ==
    /\ pc = "shutdown"
    /\ idx <= N
    /\ IF ShutdownSkips(Server[idx])
       THEN /\ idx' = idx + 1
            /\ UNCHANGED <<ok, termReqs, termFail>>
       ELSE \E terminated \in BOOLEAN :
               /\ termReqs' = Append(termReqs, idx)
               /\ termFail' = IF terminated THEN termFail ELSE termFail \cup {idx}
               /\ ok' = (ok /\ terminated)
               /\ idx' = ShutdownNext(terminated, idx)
    /\ UNCHANGED <<cliVars, memVars, mainVars, allOk, recvd, workVars, now, createReqs,
                   createFail, sshCmds, outVars>>

\* a Run that returns runInstance's error after the rollback
RunRollbackResultOfRun(shutdownErr) == "runInstance"

\* what Run returns when runInstance failed: return c.Shutdown()
RunRollbackResult(shutdownErr) == shutdownErr

\* Shutdown's loop is over: the error it returns is the verb's (Run returns it too)
Shutdown_return ==
    /\ pc = "shutdown"
    /\ idx > N
    /\ err' = IF verb = "run"
              THEN RunRollbackResult(ShutdownResult(ok))
              ELSE ShutdownResult(ok)
    /\ pc' = "finish"
    /\ UNCHANGED <<cliVars, memVars, exitCode, usage, loaded, loopVars, workVars, now, provVars,
                   sshCmds, outVars>>

(***************************************************************************)
(* Config.Setup, Config.setupInstance, Config.sshCommand, SetupTemplate    *)
(***************************************************************************)
\* setupInstance's search for the master: the first server of kind master
\* (0: m == nil)
FindMaster(S) ==
    IF \E n \in 1..Len(S) : S[n].Kind = "master"
    THEN Min({n \in 1..Len(S) : S[n].Kind = "master"})
    ELSE 0

\* SetupTemplate(stdin, icecast, server, master): the template reads
\* .Icecast's fields, .Server.Instance.DNSName and, with a master,
\* .Master.Instance.DNSName; a nil pointer on the way is an error (m = 0: no
\* master given)
SetupTemplate(S, ice, i, m) ==
    IF \/ ~ice
       \/ S[i].Instance = NoInstance
       \/ (m # 0 /\ S[m].Instance = NoInstance)
    THEN "SetupTemplate"
    ELSE nil

\* a setupInstance without the m == nil check
setupScriptUnchecked(S, ice, i) ==
    SetupTemplate(S, ice, i, IF S[i].Kind = "master" THEN 0 ELSE FindMaster(S))

\* setupInstance up to the script: the error it returns there, or nil
setupScript(S, ice, i) ==
    IF S[i].Kind = "master"
    THEN SetupTemplate(S, ice, i, 0)
    ELSE IF FindMaster(S) = 0
         THEN "no master found in config"
         ELSE SetupTemplate(S, ice, i, FindMaster(S))

\* sshCommand returns before it runs ssh: s.Instance == nil
sshNoInstance(s) == s.Instance = NoInstance

\* ssh's target, userhost without the user
sshHost(s) == s.Instance[1].DNSName

\* a setupInstance that runs the script whatever the upload returned
setupRunsAlways(uploaded) == TRUE

\* setupInstance goes on to "bash setup.sh" after "cat > setup.sh"
setupRuns(uploaded) == uploaded

\* node i's goroutine: setupInstance from its start to the end of
\* sshCommand(s, "cat > setup.sh", stdin)
setupInstance_upload(i) ==
    /\ pc = "setup"
    /\ wpc[i] = "setup"
    /\ IF setupScript(Server, Icecast, i) # nil
       THEN /\ wres' = [wres EXCEPT ![i] = setupScript(Server, Icecast, i)]
            /\ wpc' = [wpc EXCEPT ![i] = "send"]
            /\ UNCHANGED sshCmds
       ELSE IF sshNoInstance(Server[i])
            THEN /\ wres' = [wres EXCEPT ![i] = "sshCommand: nil instance"]
                 /\ wpc' = [wpc EXCEPT ![i] = "send"]
                 /\ UNCHANGED sshCmds
            ELSE \E uploaded \in BOOLEAN :
                    /\ sshCmds' = [sshCmds EXCEPT ![i] = Append(@,
                          [cmd |-> "cat > setup.sh", host |-> sshHost(Server[i]),
                           ok |-> uploaded])]
                    /\ IF setupRuns(uploaded)
                       THEN /\ wpc' = [wpc EXCEPT ![i] = "exec"]
                            /\ UNCHANGED wres
                       ELSE /\ wpc' = [wpc EXCEPT ![i] = "send"]
                            /\ wres' = [wres EXCEPT ![i] = "ssh"]
    /\ UNCHANGED <<cliVars, memVars, mainVars, loopVars, wake, deadline, begun, polls, now,
                   provVars, outVars>>

\* node i's goroutine: sshCommand(s, "bash setup.sh", nil), setupInstance's result
setupInstance_exec(i) ==
    /\ pc = "setup"
    /\ wpc[i] = "exec"
    /\ \E ran \in BOOLEAN :
          /\ sshCmds' = [sshCmds EXCEPT ![i] = Append(@,
                [cmd |-> "bash setup.sh", host |-> sshHost(Server[i]), ok |-> ran])]
          /\ wres' = [wres EXCEPT ![i] = IF ran THEN nil ELSE "ssh"]
          /\ wpc' = [wpc EXCEPT ![i] = "send"]
    /\ UNCHANGED <<cliVars, memVars, mainVars, loopVars, wake, deadline, begun, polls, now,
                   provVars, outVars>>

\* what node i's goroutine sends on ok: err == nil
setupSends(res) == res = nil

\* a Setup that keeps the last result only
SetupAllOkLast(all, k) == k

\* Setup's allOk after a receive: allOk = allOk && k
SetupAllOk(all, k) == all /\ k

\* ok <- k in node i's goroutine meets k := <-ok in Setup's loop
Setup_recv(i) ==
    /\ pc = "setup"
    /\ recvd < N
    /\ wpc[i] = "send"
    /\ wpc' = [wpc EXCEPT ![i] = "exited"]
    /\ allOk' = SetupAllOk(allOk, setupSends(wres[i]))
    /\ recvd' = recvd + 1
    /\ UNCHANGED <<cliVars, memVars, mainVars, idx, ok, wres, wake, deadline, begun, polls, now,
                   provVars, sshCmds, outVars>>

\* what Setup returns
SetupResult(all) ==
    IF all THEN nil ELSE "some instances didn't set up cleanly"

\* Setup's loop has received len(c.Server) times
Setup_return ==
    /\ pc = "setup"
    /\ ReceiveLoopDone(recvd, N)
    /\ err' = SetupResult(allOk)
    /\ pc' = "finish"
    /\ UNCHANGED <<cliVars, memVars, exitCode, usage, loaded, loopVars, workVars, now, provVars,
                   sshCmds, outVars>>

(***************************************************************************)
(* Config.Playlist, Config.writePlaylist, Config.ServerURL, the templates  *)
(***************************************************************************)
\* Icecast.ListenPort as fmt's %d prints it (the model's files all give 8000)
ListenPort == "8000"

ServerURL(s, ice) ==
    IF s.Instance = NoInstance \/ ~ice
    THEN ""
    ELSE "http://" \o s.Instance[1].DNSName \o ":" \o ListenPort \o "/"

\* a writePlaylist that leaves out server i only
playlistOmitsSelfOnly(S, i, j) == i = j

\* the servers writePlaylist leaves out of the list of server i: masters, and i
playlistOmits(S, i, j) == S[j].Kind = "master" \/ i = j

\* writePlaylist's servers for server i: its own URL, then the others'
playlistServers(S, ice, i, mount) ==
    LET others == SelectSeq([j \in 1..Len(S) |-> j], LAMBDA j : ~playlistOmits(S, i, j))
    IN  <<ServerURL(S[i], ice) \o mount>> \o
        [k \in 1..Len(others) |-> ServerURL(S[others[k]], ice) \o mount]

\* the servers writePlaylist writes a file for
playlistFor(S) == SelectSeq([j \in 1..Len(S) |-> j], LAMBDA j : S[j].Kind # "master")

\* fmt.Sprintf("%s-%s.%s", mount, s.Name, ext)
playlistName(mount, name, ext) == mount \o "-" \o name \o "." \o ext

\* plsTmpl's idx
plsIdx(i) == i + 1

RECURSIVE Concat(_)
Concat(ss) == IF ss = <<>> THEN <<>> ELSE Head(ss) \o Concat(Tail(ss))

\* m3uTmpl: a line per server
m3uTmpl(servers) == servers

\* plsTmpl: the lines it prints, the blank ones left out
plsTmpl(servers) ==
    <<"[playlist]">> \o
    Concat([i0 \in 1..Len(servers) |->
        << "File" \o ToString(plsIdx(i0 - 1)) \o "=" \o servers[i0],
           "Title" \o ToString(plsIdx(i0 - 1)) \o "=Server " \o ToString(plsIdx(i0 - 1)),
           "Length" \o ToString(plsIdx(i0 - 1)) \o "=-1" >>]) \o
    << "NumberOfEntries=" \o ToString(Len(servers)), "Version=2" >>

playlistText(ext, servers) == IF ext = "m3u" THEN m3uTmpl(servers) ELSE plsTmpl(servers)

\* the files one call of writePlaylist creates, in order
writePlaylist(S, ice, mount, ext) ==
    LET for == playlistFor(S)
    IN  [k \in 1..Len(for) |->
            LET servers == playlistServers(S, ice, for[k], mount)
            IN  [name |-> playlistName(mount, S[for[k]].Name, ext),
                 node |-> for[k],
                 mount |-> mount,
                 ext |-> ext,
                 servers |-> servers,
                 text |-> playlistText(ext, servers)]]

\* the files Playlist creates, in order: per mount, the m3u files and then the pls files
RECURSIVE PlaylistFiles(_, _, _)
PlaylistFiles(S, ice, mounts) ==
    IF mounts = <<>>
    THEN <<>>
    ELSE writePlaylist(S, ice, Head(mounts), "m3u") \o
         writePlaylist(S, ice, Head(mounts), "pls") \o
         PlaylistFiles(S, ice, Tail(mounts))

\* the directory after the first n files of fs are written (a later file of
\* the same name replaces an earlier one)
RECURSIVE WriteFiles(_, _, _)
WriteFiles(dir, fs, n) ==
    IF n = 0
    THEN dir
    ELSE (fs[n].name :> fs[n]) @@ WriteFiles(dir, fs, n - 1)

\* Playlist(flag.Args()[1:]): every os.Create succeeds (failAt = 0), or the
\* failAt-th fails and Playlist returns its error
Playlist ==
    /\ pc = "playlist"
    /\ LET fs == PlaylistFiles(Server, Icecast, args)
       IN  \E failAt \in 0..Len(fs) :
              /\ files' = WriteFiles(files, fs, IF failAt = 0 THEN Len(fs) ELSE failAt - 1)
              /\ err' = IF failAt = 0 THEN nil ELSE "os.Create"
    /\ pc' = "finish"
    /\ UNCHANGED <<cliVars, memVars, exitCode, usage, loaded, loopVars, workVars, now, provVars,
                   sshCmds, stateDisk, written>>

(***************************************************************************)
(* Specifications                                                          *)
(***************************************************************************)
Next ==
    \/ main_args
    \/ ReadConfig
    \/ main_switch
    \/ runInstance
    \/ Run_spawn
    \/ \E i \in Nodes : waitReady_test(i)
    \/ \E i \in Nodes : getInstance(i)
    \/ Tick
    \/ \E i \in Nodes : Run_recv(i)
    \/ Run_return
    \/ Shutdown_step
    \/ Shutdown_return
    \/ \E i \in Nodes : setupInstance_upload(i)
    \/ \E i \in Nodes : setupInstance_exec(i)
    \/ \E i \in Nodes : Setup_recv(i)
    \/ Setup_return
    \/ Playlist
    \/ main_finish

\* one invocation of icecloud
Spec == Init /\ [][Next]_vars

\* run or setup over a fleet of up to MaxFanOut servers with a master first;
\* in the run of a single server the provider takes up to MaxPollLatency
\* seconds to answer a describe-instances call
InitLive ==
    /\ verb \in {"run", "setup"}
    /\ args = IF verb = "run" THEN <<"config.json">> ELSE <<>>
    /\ \E content \in FileContents(MaxFanOut) :
          /\ content.present
          /\ RunConfig(content)
          /\ verb = "run" =>
                \A i \in 1..Len(content.Server) : content.Server[i].Instance = NoInstance
          /\ configDisk = IF verb = "run" THEN content ELSE NoFile
          /\ stateDisk = IF verb = "run" THEN NoFile ELSE content
    /\ maxLat \in IF verb = "run" /\ Len(configDisk.Server) = 1
                  THEN 0..MaxPollLatency
                  ELSE {0}
    /\ FirstInvocation
    /\ Fresh

NextLive ==
    \/ main_args
    \/ ReadConfig
    \/ main_switch
    \/ runInstance
    \/ Run_spawn
    \/ \E i \in Nodes : waitReady_test(i)
    \/ \E i \in Nodes : getInstance(i)
    \/ Tick
    \/ \E i \in Nodes : Run_recv(i)
    \/ Run_return
    \/ Shutdown_step
    \/ Shutdown_return
    \/ \E i \in Nodes : setupInstance_upload(i)
    \/ \E i \in Nodes : setupInstance_exec(i)
    \/ \E i \in Nodes : Setup_recv(i)
    \/ Setup_return
    \/ main_finish

\* such an invocation in which whatever can run does run in the end: the
\* scheduler runs every runnable goroutine, every call of the provider, of
\* ssh and of the file system returns, and time passes
SpecLive == InitLive /\ [][NextLive]_vars /\ WF_vars(NextLive)

\* Run's readiness stage for one provisioned server, the provider taking up
\* to MaxPollLatency seconds to answer a describe-instances call
InitWait ==
    /\ inv = 1
    /\ verb = "run"
    /\ args = <<"config.json">>
    /\ \E k \in Kinds :
          /\ configDisk = [present |-> TRUE, Icecast |-> TRUE, Server |->
                <<[Name |-> NodeName(1), Kind |-> k, Instance |-> NoInstance]>>]
          /\ Server = <<[Name |-> NodeName(1), Kind |-> k,
                         Instance |-> Instance(NewId(1), "")]>>
    /\ stateDisk = NoFile
    /\ maxLat \in 0..MaxPollLatency
    /\ FirstInvocation
    /\ Icecast = TRUE
    /\ pc = "run"
    /\ exitCode = -1
    /\ usage = FALSE
    /\ err = nil
    /\ loaded = TRUE
    /\ idx = 2
    /\ ok = TRUE
    /\ allOk = TRUE
    /\ recvd = 0
    /\ wpc = <<"idle">>
    /\ wres = <<"none">>
    /\ wake = <<0>>
    /\ deadline = <<0>>
    /\ begun = <<0>>
    /\ polls = <<0>>
    /\ now = 0
    /\ createReqs = <<1>>
    /\ createFail = 0
    /\ termReqs = <<>>
    /\ termFail = {}
    /\ sshCmds = << <<>> >>
    /\ files = EmptyFiles
    /\ written = "no"

NextWait ==
    \/ Run_spawn
    \/ \E i \in Nodes : waitReady_test(i)
    \/ \E i \in Nodes : getInstance(i)
    \/ Tick
    \/ \E i \in Nodes : Run_recv(i)
    \/ Run_return

SpecWait == InitWait /\ [][NextWait]_vars

(***************************************************************************)
(* A session: icecloud invoked again and again over the files it leaves    *)
(***************************************************************************)
\* the instances this invocation created: those of the creations that succeeded
CreatedNow ==
    { NewId(createReqs[j]) : j \in {k \in 1..Len(createReqs) : createReqs[k] # createFail} }

\* the instances this invocation terminated: those of the termination
\* requests that succeeded
TerminatedIdsNow ==
    { Server[termReqs[j]].Instance[1].InstanceId :
        j \in {k \in 1..Len(termReqs) : termReqs[k] \notin termFail} }

\* the instances that exist now
LiveNow == (live \cup CreatedNow) \ TerminatedIdsNow

\* the command lines of a session
SessionArgs(v) ==
    IF v = "run" THEN <<"config.json">> ELSE IF v = "playlist" THEN <<"live">> ELSE <<>>

\* a fleet of n servers, a master first: as the config file names it, and as
\* the state file of an earlier run that went well names it
SessionFleet(n, ready) ==
    [present |-> TRUE,
     Server |-> [i \in 1..n |->
        [Name |-> NodeName(i),
         Kind |-> IF i = 1 THEN "master" ELSE "slave",
         Instance |-> IF ready THEN Instance(OldId(i), Host(i)) ELSE NoInstance]],
     Icecast |-> TRUE]

\* the operator has a config file and perhaps the state file of an earlier
\* run, and invokes icecloud
InitSession ==
    /\ verb \in {"run", "setup", "playlist", "shutdown"}
    /\ args = SessionArgs(verb)
    /\ \E n \in 1..MaxSessionNodes :
          /\ configDisk = SessionFleet(n, FALSE)
          /\ stateDisk \in {NoFile, SessionFleet(n, TRUE)}
    /\ maxLat = 0
    /\ FirstInvocation
    /\ Fresh

\* the process has ended, and the operator invokes icecloud again, over the
\* files the process left
Invoke ==
    /\ pc = "exit"
    /\ inv < MaxInvocations
    /\ inv' = inv + 1
    /\ live' = LiveNow
    /\ gone' = gone \cup (IF written = "yes" THEN TerminatedIdsNow ELSE {})
    /\ verb' \in {"run", "setup", "playlist", "shutdown"}
    /\ args' = SessionArgs(verb')
    /\ Server' = <<>>
    /\ Icecast' = FALSE
    /\ pc' = "start"
    /\ exitCode' = -1
    /\ usage' = FALSE
    /\ err' = nil
    /\ loaded' = FALSE
    /\ idx' = 0
    /\ ok' = TRUE
    /\ allOk' = TRUE
    /\ recvd' = 0
    /\ wpc' = <<>>
    /\ wres' = <<>>
    /\ wake' = <<>>
    /\ deadline' = <<>>
    /\ begun' = <<>>
    /\ polls' = <<>>
    /\ now' = 0
    /\ createReqs' = <<>>
    /\ createFail' = 0
    /\ termReqs' = <<>>
    /\ termFail' = {}
    /\ sshCmds' = <<>>
    /\ files' = EmptyFiles
    /\ written' = "no"
    /\ UNCHANGED <<configDisk, stateDisk, maxLat>>

NextSession ==
    \/ main_args
    \/ ReadConfig
    \/ main_switch
    \/ runInstance
    \/ Run_spawn
    \/ \E i \in Nodes : waitReady_test(i)
    \/ \E i \in Nodes : getInstance(i)
    \/ Tick
    \/ \E i \in Nodes : Run_recv(i)
    \/ Run_return
    \/ Shutdown_step
    \/ Shutdown_return
    \/ \E i \in Nodes : setupInstance_upload(i)
    \/ \E i \in Nodes : setupInstance_exec(i)
    \/ \E i \in Nodes : Setup_recv(i)
    \/ Setup_return
    \/ Playlist
    \/ main_finish
    \/ Invoke

SpecSession == InitSession /\ [][NextSession]_vars

\* the fleets of n servers of any kinds, each without an instance or with an
\* instance that has its address
PlaylistServersOf(n) ==
    { [i \in 1..n |-> [Name |-> NodeName(i), Kind |-> k[i],
                       Instance |-> IF up[i] THEN Instance(OldId(i), Host(i))
                                    ELSE NoInstance]] :
        k \in [1..n -> Kinds], up \in [1..n -> BOOLEAN] }

\* the setup verb over the state file of any fleet of up to MaxSetupNodes
\* servers of any kinds, each without an instance or with an instance that
\* has its address, and with Icecast set
InitSetup ==
    /\ verb = "setup"
    /\ args = <<>>
    /\ configDisk = NoFile
    /\ \E s \in UNION {PlaylistServersOf(n) : n \in 0..MaxSetupNodes} :
          stateDisk = [present |-> TRUE, Server |-> s, Icecast |-> TRUE]
    /\ maxLat = 0
    /\ FirstInvocation
    /\ Fresh

NextSetup ==
    \/ main_args
    \/ ReadConfig
    \/ main_switch
    \/ \E i \in Nodes : setupInstance_upload(i)
    \/ \E i \in Nodes : setupInstance_exec(i)
    \/ \E i \in Nodes : Setup_recv(i)
    \/ Setup_return
    \/ main_finish

SpecSetup == InitSetup /\ [][NextSetup]_vars

\* the playlist verb over any loaded fleet of up to MaxPlaylistNodes servers,
\* each without an instance or with an instance that has its address, and
\* with Icecast set (Spec has the files without it)
InitPlaylist ==
    /\ verb = "playlist"
    /\ args \in ArgLists("playlist")
    /\ configDisk = NoFile
    /\ Server \in UNION {PlaylistServersOf(n) : n \in 0..MaxPlaylistNodes}
    /\ Icecast = TRUE
    /\ stateDisk = Marshal(Server, Icecast)
    /\ maxLat = 0
    /\ FirstInvocation
    /\ pc = "playlist"
    /\ exitCode = -1
    /\ usage = FALSE
    /\ err = nil
    /\ loaded = TRUE
    /\ idx = 0
    /\ ok = TRUE
    /\ allOk = TRUE
    /\ recvd = 0
    /\ wpc = [i \in 1..Len(Server) |-> "idle"]
    /\ wres = [i \in 1..Len(Server) |-> "none"]
    /\ wake = [i \in 1..Len(Server) |-> 0]
    /\ deadline = [i \in 1..Len(Server) |-> 0]
    /\ begun = [i \in 1..Len(Server) |-> 0]
    /\ polls = [i \in 1..Len(Server) |-> 0]
    /\ now = 0
    /\ createReqs = <<>>
    /\ createFail = 0
    /\ termReqs = <<>>
    /\ termFail = {}
    /\ sshCmds = [i \in 1..Len(Server) |-> <<>>]
    /\ files = EmptyFiles
    /\ written = "no"

NextPlaylist == Playlist

SpecPlaylist == InitPlaylist /\ [][NextPlaylist]_vars

(***************************************************************************)
(* Properties                                                              *)
(***************************************************************************)
\* the verb's function has returned (main is at or past its err check)
Returned == loaded /\ pc \in {"finish", "exit"}

\* 1, 2, ..., n
UpTo(n) == [j \in 1..n |-> j]

\* the config file of run names no instance
StartsUnprovisioned ==
    /\ verb = "run"
    /\ configDisk.present
    /\ \A i \in 1..Len(configDisk.Server) : configDisk.Server[i].Instance = NoInstance

\* C1: in run over a fleet that starts without instances, when the creation
\* of node k fails (after those of nodes 1..k-1 succeeded), creation was
\* requested for nodes 1..k and for none after k, termination is requested
\* for nodes 1..k-1 in order, each once, and for no other node, and when
\* Shutdown has returned it has been requested for all of 1..k-1.
C1_RollbackExactlyPrior ==
    (StartsUnprovisioned /\ createFail # 0) =>
        /\ createReqs = UpTo(createFail)
        /\ Len(termReqs) <= createFail - 1
        /\ termReqs = UpTo(Len(termReqs))
        /\ Returned => termReqs = UpTo(createFail - 1)

\* C1's case: a fleet of two, the second creation fails, the first node's
\* termination was requested and the process has ended
C1_Witness ==
    /\ StartsUnprovisioned
    /\ pc = "exit"
    /\ N = 2
    /\ createFail = 2
    /\ createReqs = <<1, 2>>
    /\ termReqs = <<1>>

ValidVerbs == {"run", "setup", "playlist", "shutdown"}

\* C2: a process that ran a verb over a loaded config has called
\* config.Write(*stateFile) by the time it exits, whether the verb returned
\* an error or not.
C2_StateWrittenWhateverTheOutcome ==
    (pc = "exit" /\ loaded /\ verb \in ValidVerbs) => written # "no"

\* C3: when a creation failed during run, Run returns an error and the
\* process exits with a non-zero status.
C3_FailedRunReportsFailure ==
    (verb = "run" /\ createFail # 0 /\ Returned) =>
        /\ err # nil
        /\ pc = "exit" => exitCode # 0

\* Shutdown has run to its end: as the verb, or as the rollback of run
ShutdownReturned == Returned /\ (verb = "shutdown" \/ (verb = "run" /\ createFail # 0))

\* the servers with an instance among the first n, in order
RECURSIVE WithInstance(_, _)
WithInstance(S, n) ==
    IF n = 0
    THEN <<>>
    ELSE IF S[n].Instance # NoInstance
         THEN Append(WithInstance(S, n - 1), n)
         ELSE WithInstance(S, n - 1)

\* C5: Shutdown requests termination once for every server that has an
\* instance, in order, and never for one without; it goes through the whole
\* fleet whatever fails; and it returns an error exactly when a request it
\* issued failed.
C5_ShutdownTerminatesAll ==
    /\ (loaded /\ pc = "shutdown") =>
          /\ termReqs = WithInstance(Server, IF idx > N THEN N ELSE idx - 1)
          /\ ok = (termFail = {})
    /\ ShutdownReturned =>
          /\ termReqs = WithInstance(Server, N)
          /\ termFail \subseteq {termReqs[j] : j \in 1..Len(termReqs)}
          /\ (err # nil) = (termFail # {})

\* C5's case: the verb shutdown over two servers with instances, the first
\* termination fails and the second is still requested
C5_Witness ==
    /\ verb = "shutdown"
    /\ Returned
    /\ N = 2
    /\ termReqs = <<1, 2>>
    /\ termFail = {1}
    /\ err # nil

\* an invocation main has to refuse: no verb, a verb that is none of the
\* four, run without a config file, playlist without a mount
BadInvocation ==
    \/ verb \notin ValidVerbs
    \/ verb \in {"run", "playlist"} /\ args = <<>>

\* main ends such an invocation before it reads a file: no verb, or run
\* without a config file (the others read the state file first, and are taken
\* here with a state file that ReadConfig can read)
RefusedUnread == verb = "" \/ (verb = "run" /\ args = <<>>)

\* C10: an invocation with a missing or invalid verb or a missing positional
\* argument prints the usage text and exits with a non-zero status, and the
\* state file is not written.
C10_BadInvocationPrintsUsage ==
    (pc = "exit" /\ BadInvocation /\ (loaded \/ RefusedUnread)) =>
        /\ usage
        /\ exitCode # 0
        /\ written = "no"

\* what setupInstance returns for node i: the error of its script, or else
\* what ssh answered to node i's own two commands
SetupOutcome(i) ==
    IF setupScript(Server, Icecast, i) # nil
    THEN setupScript(Server, Icecast, i)
    ELSE IF Len(sshCmds[i]) = 2 /\ sshCmds[i][1].ok /\ sshCmds[i][2].ok
         THEN nil
         ELSE "ssh"

\* C4: Setup runs setupInstance for every server and returns nil exactly
\* when every setupInstance returned nil; what a server's setupInstance
\* returns is decided by the config and by ssh's answers to that server's own
\* commands, whatever the other servers' rollouts do and in whatever order.
C4_SetupIsTheConjunction ==
    (verb = "setup" /\ loaded) =>
        /\ \A i \in Nodes : wpc[i] \in {"send", "exited"} => wres[i] = SetupOutcome(i)
        /\ Returned =>
              /\ \A i \in Nodes : wpc[i] = "exited"
              /\ (err = nil) = (\A i \in Nodes : wres[i] = nil)

\* C4's case: of two servers the first one's rollout fails and the second
\* one's runs both commands and succeeds; Setup returns an error
C4_Witness ==
    /\ verb = "setup"
    /\ Returned
    /\ N = 2
    /\ wres[1] = "ssh"
    /\ wres[2] = nil
    /\ Len(sshCmds[2]) = 2
    /\ err # nil

Timeout == "waitReady: server took too long"

\* run has provisioned every server
Provisioned == verb = "run" /\ loaded /\ createFail = 0

C6_State ==
    Provisioned =>
        /\ pc = "wait" => \A i \in Nodes : wpc[i] # "idle"
        /\ Returned =>
              /\ \A i \in Nodes : wpc[i] = "exited" /\ wres[i] # "none"
              /\ err = nil

C6_Step ==
    (Provisioned /\ pc = "wait") =>
        /\ \A i \in Nodes : wres[i] # "none" => wres'[i] = wres[i]
        /\ \A i, j \in Nodes : i # j => (wres'[i] = wres[i] \/ wres'[j] = wres[j])

\* C6: after every server is provisioned, every server is waited on, a step
\* settles the outcome of one server's wait at most and never changes an
\* outcome that is settled, and Run returns nil whatever the outcomes are.
C6_WaitsAreIndependent == []C6_State /\ [][C6_Step]_vars

\* C6's case: the first server's wait timed out, the second one's
\* succeeded, and Run has returned nil
C6_Witness ==
    /\ Provisioned
    /\ pc = "finish"
    /\ N = 2
    /\ wres[1] = Timeout
    /\ wres[2] = nil
    /\ err = nil

Address(i) == Server[i].Instance[1].DNSName

\* C7 as stated: waitReady reports success only for an address observed
\* within 120 seconds of its start, and else a timeout, at the deadline or at
\* most one poll interval after it.
C7_WithinDeadline ==
    \A i \in Nodes : (verb = "run" /\ pc = "wait" /\ wpc[i] = "send") =>
        /\ wres[i] = nil => (Address(i) # "" /\ now <= deadline[i])
        /\ wres[i] = Timeout =>
              /\ Address(i) = ""
              /\ now >= deadline[i]
              /\ now <= deadline[i] + SleepSecs

\* C7, amended: waitReady reports success exactly when a poll it started
\* before the deadline returns a non-empty address, also when the answer
\* comes after the deadline; else it reports a timeout at its first loop test
\* at or after the deadline, which comes one sleep after the end of a poll
\* started before the deadline.
C7_PollStartedBeforeDeadline ==
    \A i \in Nodes : (verb = "run" /\ pc = "wait") =>
        /\ wpc[i] = "poll" => begun[i] < deadline[i]
        /\ (wpc[i] = "send" /\ wres[i] = nil) =>
              /\ Address(i) # ""
              /\ begun[i] < deadline[i]
              /\ now <= begun[i] + maxLat
        /\ (wpc[i] = "send" /\ wres[i] = Timeout) =>
              /\ Address(i) = ""
              /\ now >= deadline[i]
              /\ begun[i] < deadline[i]
              /\ now <= begun[i] + maxLat + SleepSecs

\* C7's case: success is reported for an address that arrived after the deadline
C7_Witness ==
    /\ verb = "run"
    /\ pc = "wait"
    /\ wpc[1] = "send"
    /\ wres[1] = nil
    /\ Address(1) # ""
    /\ now > deadline[1]

NoMaster == \A i \in Nodes : Server[i].Kind # "master"

NoRemoteCommand == \A i \in Nodes : sshCmds[i] = <<>>

\* C8 as stated: Setup over a fleet without a master fails, and no remote
\* command is issued.
C8_NoMasterFails ==
    (verb = "setup" /\ loaded /\ NoMaster) =>
        /\ NoRemoteCommand
        /\ Returned => err # nil

\* C8, amended: Setup over a fleet of at least one server and without a
\* master fails, every setupInstance returning "no master found in config",
\* and no remote command is issued.
C8_NoMasterFailsUnlessEmpty ==
    (verb = "setup" /\ loaded /\ NoMaster /\ N >= 1) =>
        /\ NoRemoteCommand
        /\ \A i \in Nodes :
              wpc[i] \in {"send", "exited"} => wres[i] = "no master found in config"
        /\ Returned => err # nil

\* C8's case: two servers, none a master, with instances; Setup has failed
C8_Witness ==
    /\ verb = "setup"
    /\ Returned
    /\ N = 2
    /\ NoMaster
    /\ \A i \in Nodes : Server[i].Instance # NoInstance
    /\ Icecast
    /\ err # nil

\* the servers that are no masters
NonMasters == {j \in Nodes : Server[j].Kind # "master"}

\* server j's URL of a mount
URLOf(j, mount) == ServerURL(Server[j], Icecast) \o mount

\* server j has an address of its own (servers without one all print the
\* same URL)
HasAddress(j) ==
    /\ Icecast
    /\ Server[j].Instance # NoInstance
    /\ Server[j].Instance[1].DNSName # ""

\* the non-masters other than i among the first n servers, in fleet order
RECURSIVE OthersOf(_, _)
OthersOf(i, n) ==
    IF n = 0
    THEN <<>>
    ELSE IF n \in NonMasters /\ n # i
         THEN Append(OthersOf(i, n - 1), n)
         ELSE OthersOf(i, n - 1)

\* the file names Playlist is to create
PlaylistNames ==
    { args[m] \o "-" \o Server[j].Name \o "." \o ext :
        m \in 1..Len(args), j \in NonMasters, ext \in {"m3u", "pls"} }

\* the lines of a playlist file that name a server, in order
EntriesOf(f) ==
    IF f.ext = "m3u"
    THEN f.text
    ELSE [k \in 1..((Len(f.text) - 3) \div 3) |-> f.text[3 * k - 1]]

\* the line of server url as the k-th entry of a file
EntryLine(ext, k, url) ==
    IF ext = "m3u" THEN url ELSE "File" \o ToString(k) \o "=" \o url

\* C9: every playlist file is the file of a mount and of a server that is no
\* master (none is written for a master); it lists that server's URL first,
\* then the URL of every other non-master in fleet order; a server with an
\* address is listed once if it is no master and never if it is one; the
\* number of entries, which the pls file prints as NumberOfEntries, is the
\* number of non-masters; and a Playlist that returns nil has written the
\* m3u and the pls file of every mount and non-master.
C9_PlaylistOrder ==
    /\ \A name \in DOMAIN files :
          LET f == files[name]
              entries == EntriesOf(f)
              others == OthersOf(f.node, N)
          IN  /\ f.node \in NonMasters
              /\ name = f.mount \o "-" \o Server[f.node].Name \o "." \o f.ext
              /\ name \in PlaylistNames
              /\ Len(entries) = Cardinality(NonMasters)
              /\ Len(entries) = 1 + Len(others)
              /\ entries[1] = EntryLine(f.ext, 1, URLOf(f.node, f.mount))
              /\ \A k \in 1..Len(others) :
                    entries[k + 1] = EntryLine(f.ext, k + 1, URLOf(others[k], f.mount))
              /\ \A j \in Nodes : HasAddress(j) =>
                    Cardinality({k \in 1..Len(entries) :
                        entries[k] = EntryLine(f.ext, k, URLOf(j, f.mount))})
                      = IF j \in NonMasters THEN 1 ELSE 0
              /\ f.ext = "pls" =>
                    f.text[Len(f.text) - 1] =
                        "NumberOfEntries=" \o ToString(Cardinality(NonMasters))
    /\ (verb = "playlist" /\ pc = "finish" /\ err = nil) => DOMAIN files = PlaylistNames

\* C9's case: the fleet [master, A, B, C] and the mount live
C9_Witness ==
    /\ verb = "playlist"
    /\ pc = "finish"
    /\ err = nil
    /\ args = <<"live">>
    /\ N = 4
    /\ [i \in Nodes |-> Server[i].Kind] = <<"master", "slave", "slave", "slave">>
    /\ files["live-n2.m3u"].text =
          <<"http://host2:8000/live", "http://host3:8000/live", "http://host4:8000/live">>
    /\ files["live-n3.m3u"].text =
          <<"http://host3:8000/live", "http://host2:8000/live", "http://host4:8000/live">>
    /\ files["live-n3.pls"].text[2] = "File1=http://host3:8000/live"
    /\ files["live-n3.pls"].text[11] = "NumberOfEntries=3"

\* the lifecycle stage that follows from a server's persisted fields (the
\* Server type has no field for a stage): no instance, an instance without an
\* address, an instance with its address
StageOfRecord(s) ==
    IF s.Instance = NoInstance
    THEN "Unprovisioned"
    ELSE IF s.Instance[1].DNSName = "" THEN "Provisioned" ELSE "Ready"

\* this invocation's termination request for server i succeeded
TerminatedNow(i) ==
    /\ \E j \in 1..Len(termReqs) : termReqs[j] = i
    /\ i \notin termFail

\* this invocation's rollout of server i ran both commands with success
ConfiguredNow(i) ==
    /\ Len(sshCmds[i]) = 2
    /\ sshCmds[i][1].ok
    /\ sshCmds[i][2].ok

\* the lifecycle stage of server i in memory
StageInMemory(i) ==
    IF TerminatedNow(i)
    THEN "Terminated"
    ELSE IF ConfiguredNow(i) THEN "Configured" ELSE StageOfRecord(Server[i])

\* the servers ReadConfig would load from the state file
Reloaded == Unmarshal(stateDisk).Server

\* C11: when the state file has been written, reloading it gives every
\* server the instance identifier, the address and the lifecycle stage it had
\* in memory at the write; a server that was terminated or configured is
\* reloaded as such.
C11_ReloadGivesStages ==
    written = "yes" =>
        /\ Len(Reloaded) = N
        /\ \A i \in Nodes :
              /\ Reloaded[i].Instance = Server[i].Instance
              /\ StageOfRecord(Reloaded[i]) = StageInMemory(i)

\* C12: when a creation fails in run, Run goes to Shutdown at once: it
\* requests no further creation and starts no waitReady; and what Run returns
\* is what Shutdown returns, nil when every termination request of the
\* rollback succeeded and Shutdown's error when one failed, never the error
\* of the creation.
C12_RunReturnsShutdownsResult ==
    (verb = "run" /\ loaded /\ createFail # 0) =>
        /\ pc \in {"shutdown", "finish", "exit"}
        /\ createReqs[Len(createReqs)] = createFail
        /\ \A i \in Nodes : wpc[i] = "idle" /\ wres[i] = "none"
        /\ Returned =>
              /\ err = ShutdownResult(termFail = {})
              /\ (err = nil) = (termFail = {})

\* C12's case: the second creation failed, the first server's termination
\* succeeded, Run returned nil and the process ended with success
C12_Witness ==
    /\ verb = "run"
    /\ createFail = 2
    /\ termReqs = <<1>>
    /\ termFail = {}
    /\ pc = "exit"
    /\ err = nil
    /\ exitCode = 0
    /\ written = "yes"

\* a fan-out stage is under way: Run's goroutines of waitReady, or Setup's
\* goroutines of setupInstance
FanOut == loaded /\ pc \in {"wait", "setup"}

\* the verb went through a fan-out stage and has returned
FannedOut == Returned /\ (verb = "setup" \/ (verb = "run" /\ createFail = 0))

\* the goroutines whose send on the channel has been received
Reported == {i \in Nodes : wpc[i] = "exited"}

C13_State ==
    /\ FanOut => recvd = Cardinality(Reported)
    /\ FannedOut => (recvd = N /\ Reported = Nodes)

C13_Step ==
    FanOut =>
        /\ \A i \in Nodes : wpc[i] = "exited" => wpc'[i] = "exited"
        /\ recvd' \in {recvd, recvd + 1}
        /\ recvd' = recvd + 1 =>
              \E i \in Nodes :
                 /\ wpc[i] = "send"
                 /\ wpc'[i] = "exited"
                 /\ \A j \in Nodes \ {i} : wpc'[j] = wpc[j]
        /\ pc' # pc => (recvd = N /\ Reported = Nodes)

\* C13: in Run's readiness stage and in Setup's rollout, the receives done
\* are as many as the goroutines whose send went through, a goroutine sends
\* once (after its send it does nothing more), every receive takes the send
\* of one goroutine, the stage is left only when every goroutine's send was
\* received, and a stage under way always comes to its end: no goroutine
\* stays blocked in its send and the receive loop does not wait for ever.
C13_FullBarrier == []C13_State /\ [][C13_Step]_vars /\ (FanOut ~> FannedOut)

\* C13's case: Run has received from both goroutines, whose waits ended
\* differently, and has returned
C13_Witness ==
    /\ verb = "run"
    /\ pc = "finish"
    /\ N = 2
    /\ recvd = 2
    /\ Reported = {1, 2}
    /\ wres[1] = "getInstance"
    /\ wres[2] = nil

\* the servers whose Instance the goroutine of server i writes in Run's
\* readiness stage (getInstance: s.Instance = &r.Instances[0]) and reads
\* there (getInstance: s.Instance.InstanceId)
waitReadyWrites(i) == {goArg(i, N)}

waitReadyReads(i) == {goArg(i, N)}

\* the servers whose Instance the goroutine of server i reads in Setup's
\* rollout: its own (the template and sshCommand) and, for a server that is
\* no master, the master's (the template); it writes none
setupInstanceReads(i) ==
    {i} \cup (IF Server[i].Kind = "master" \/ FindMaster(Server) = 0
              THEN {}
              ELSE {FindMaster(Server)})

setupInstanceWrites(i) == {}

\* the goroutines that take part in the step: those whose position changes
Stepping(w1, w2) == {i \in DOMAIN w1 : w1[i] # w2[i]}

C14_State ==
    /\ (loaded /\ pc = "wait") =>
          \A i, j \in Nodes : i # j =>
             waitReadyWrites(i) \cap (waitReadyReads(j) \cup waitReadyWrites(j)) = {}
    /\ (loaded /\ pc = "setup") =>
          \A i, j \in Nodes : i # j =>
             setupInstanceWrites(i) \cap (setupInstanceReads(j) \cup setupInstanceWrites(j)) = {}

C14_Step ==
    /\ (loaded /\ pc = "wait") =>
          \A k \in Nodes : Server'[k] # Server[k] =>
             /\ wpc[k] = "poll"
             /\ Stepping(wpc, wpc') = {k}
             /\ k \in waitReadyWrites(k)
             /\ \A j \in Nodes \ {k} : k \notin waitReadyReads(j) /\ Server'[j] = Server[j]
    /\ (loaded /\ pc = "setup") =>
          /\ Server' = Server
          /\ \A i \in Stepping(wpc, wpc') : \A m \in setupInstanceReads(i) :
                Server'[m] = Server[m]

\* C14: in Run's readiness stage a server's Instance is written by the
\* step of that server's own goroutine only, no other goroutine reads or
\* writes it, and a step writes one server's Instance at most; in Setup's
\* rollout no goroutine writes any Instance, so that the master's, which the
\* goroutines of the other servers read, does not change under them.
C14_OwnNodeOnly == []C14_State /\ [][C14_Step]_vars

\* C14's case: in the readiness stage the first server's goroutine has
\* written its address while the second one's is in its getInstance call
C14_Witness ==
    /\ verb = "run"
    /\ pc = "wait"
    /\ N = 2
    /\ Address(1) = Host(1)
    /\ wpc[2] = "poll"
    /\ Address(2) = ""

\* waitReady of server i has ended with the error of a poll
PollFailed(i) == verb = "run" /\ loaded /\ wres[i] = "getInstance"

C15_State ==
    \A i \in Nodes : PollFailed(i) => wpc[i] \in {"send", "exited"}

C15_Step ==
    \A i \in Nodes :
        /\ (~PollFailed(i) /\ wres'[i] = "getInstance") =>
              (wpc[i] = "poll" /\ Server' = Server)
        /\ PollFailed(i) =>
              /\ wres'[i] = wres[i]
              /\ wpc'[i] # "poll"
              /\ Server'[i] = Server[i]

\* C15: the poll of a server that returns an error ends that server's
\* waitReady with the error: the step that takes the error leaves every
\* Instance as it was, and from then on no poll of the server starts, its
\* result stays the error and its Instance does not change.
C15_PollErrorEndsWait == []C15_State /\ [][C15_Step]_vars

\* C15's case: the first server was polled without an address, slept, and its
\* next poll returned an error; its Instance is still the one of the creation
C15_Witness ==
    /\ verb = "run"
    /\ pc = "wait"
    /\ now >= SleepSecs
    /\ wpc[1] = "send"
    /\ wres[1] = "getInstance"
    /\ Server[1].Instance = Instance(NewId(1), "")

\* C16: in setup, a server gets two remote commands at most: first
\* "cat > setup.sh", and "bash setup.sh" only after that one succeeded; a
\* server whose script could not be made gets none; a command that failed is
\* the server's last; and no termination and no creation is requested.
C16_UploadThenExecute ==
    (verb = "setup" /\ loaded) =>
        /\ \A i \in Nodes :
              /\ Len(sshCmds[i]) <= 2
              /\ Len(sshCmds[i]) >= 1 => sshCmds[i][1].cmd = "cat > setup.sh"
              /\ Len(sshCmds[i]) = 2 =>
                    (sshCmds[i][1].ok /\ sshCmds[i][2].cmd = "bash setup.sh")
              /\ setupScript(Server, Icecast, i) # nil => sshCmds[i] = <<>>
              /\ \A k \in 1..Len(sshCmds[i]) : ~sshCmds[i][k].ok => k = Len(sshCmds[i])
              /\ (wpc[i] \in {"send", "exited"} /\ wres[i] = nil) => ConfiguredNow(i)
        /\ termReqs = <<>>
        /\ createReqs = <<>>

\* C16's case: the first server's upload failed and nothing followed it, the
\* second server's upload succeeded and its script failed; Setup has
\* returned and nothing was terminated
C16_Witness ==
    /\ verb = "setup"
    /\ Returned
    /\ N = 2
    /\ Len(sshCmds[1]) = 1
    /\ ~sshCmds[1][1].ok
    /\ Len(sshCmds[2]) = 2
    /\ sshCmds[2][1].ok
    /\ ~sshCmds[2][2].ok
    /\ termReqs = <<>>

\* the servers of kind master
Masters == {j \in Nodes : Server[j].Kind = "master"}

\* C17: in setup over a fleet that has no master or more than one, no
\* server that is not a master gets a remote command.
C17_RelayOnlyWithOneMaster ==
    (verb = "setup" /\ loaded /\ Cardinality(Masters) # 1) =>
        \A i \in NonMasters : sshCmds[i] = <<>>

\* no request went to the provider and no remote command was issued
NothingRequested ==
    /\ createReqs = <<>>
    /\ termReqs = <<>>
    /\ \A i \in Nodes : wpc[i] = "idle" /\ begun[i] = 0
    /\ NoRemoteCommand

C19_State ==
    (verb = "playlist" /\ loaded) =>
        /\ NothingRequested
        /\ Server = Unmarshal(stateDisk).Server
        /\ Icecast = Unmarshal(stateDisk).Icecast

C19_Step == verb = "playlist" => (stateDisk' = stateDisk /\ (loaded => Server' = Server))

\* C19: the verb playlist requests nothing of the provider and issues no
\* remote command, the servers in memory stay as they were loaded, and the
\* content of the state file never changes: what main writes at the end is
\* what it read at the start.
C19_PlaylistTouchesNothing == []C19_State /\ [][C19_Step]_vars

\* C19's case: playlist over two servers with instances has written its
\* files and the state file, and the process has ended
C19_Witness ==
    /\ verb = "playlist"
    /\ pc = "exit"
    /\ written = "yes"
    /\ N = 2
    /\ DOMAIN files # {}
    /\ Server[1].Instance = Instance(OldId(1), Host(1))
    /\ Server[2].Instance = Instance(OldId(2), "")
    /\ stateDisk.Server = Server

\* the servers this invocation requested the termination of
TermRequested == {termReqs[j] : j \in 1..Len(termReqs)}

\* server i, as loaded, names an instance that an earlier invocation
\* terminated with success before it wrote the state file
TerminatedBefore(i) ==
    /\ Server[i].Instance # NoInstance
    /\ Server[i].Instance[1].InstanceId \in gone

\* C18: an invocation of shutdown or setup over the persisted state neither
\* requests the termination of, nor issues a remote command to, a server
\* whose termination an earlier invocation (shutdown, or the rollback of run)
\* requested with success and persisted.
C18_TerminatedIsTerminal ==
    (verb \in {"shutdown", "setup"} /\ loaded) =>
        \A i \in Nodes : TerminatedBefore(i) =>
            (i \notin TermRequested /\ sshCmds[i] = <<>>)

\* C20: at the end of every invocation, every instance that exists (created
\* in this or an earlier invocation, and not terminated with success) is
\* named by the state file.
C20_NoInstanceLeaked ==
    pc = "exit" => LiveNow \subseteq IdsOf(stateDisk)

\* server i is Ready: it has an instance, and the instance has its address
Ready(i) == Server[i].Instance # NoInstance /\ Server[i].Instance[1].DNSName # ""

\* C21: in setup, a remote command is issued to a server only when the
\* server has an instance with a non-empty address, and to a server that is
\* no master only when the master has one too.
C21_SetupOnlyToReady ==
    (verb = "setup" /\ loaded) =>
        \A i \in Nodes : sshCmds[i] # <<>> =>
            /\ Ready(i)
            /\ Server[i].Kind # "master" =>
                  (FindMaster(Server) # 0 /\ Ready(FindMaster(Server)))

\* the most polls a waitReady makes: one every SleepSecs seconds while the
\* deadline is not reached, "about 120/5 = 24 polls plus one"
MaxPolls == DeadlineSecs \div SleepSecs + 1

\* Run has been called and has not returned
Running == verb = "run" /\ loaded /\ pc \in {"run", "wait", "shutdown"}

C22_State ==
    (verb = "run" /\ loaded) =>
        \A i \in Nodes :
            /\ polls[i] <= MaxPolls
            /\ wpc[i] \in {"send", "exited"} =>
                  wres[i] \in {nil, "getInstance", Timeout}

\* C22: when every call returns and time passes, a Run that was called
\* returns; each waitReady makes at most 120/5 + 1 polls and ends with
\* success, with the error of a poll or with the timeout, also for a server
\* whose address never comes.
C22_RunTerminates == []C22_State /\ (Running ~> Returned)

\* C22's case: the address of the first server never came; its waitReady
\* made as many polls as fit before the deadline and ended with the timeout
C22_Witness ==
    /\ verb = "run"
    /\ pc = "wait"
    /\ N >= 1
    /\ wpc[1] = "send"
    /\ wres[1] = Timeout
    /\ Address(1) = ""
    /\ polls[1] = DeadlineSecs \div SleepSecs

====
